---- MODULE Spec2Model ----
(***************************************************************************)
(* Model of the q-parameter scanner: the batch run of main() of            *)
(* scripts/q-checker.py over a ThreadPoolExecutor and the response         *)
(* classification of check_q(), the invocations of scripts/q-manual.py     *)
(* and the batch files written by scripts/q-generator.py.                  *)
(*                                                                         *)
(* Python values are represented uniformly so that they can be compared:   *)
(*   - a str token is a sequence of character codes (compared as Python    *)
(*     compares str: lexicographically by code point);                     *)
(*   - a dict is the set of its <<key, value>> pairs (keys unique);        *)
(*   - JSON scalars are the strings "true", "false", "null", "1", ...;     *)
(*   - None is the record NoneValue.                                       *)
(* A response body is text; check_q observes it only through json.loads,  *)
(* the two `in` tests of is_valid_html_page and the four re.search calls   *)
(* of extract_movie_details, so a body is the record of those observations.*)
(* check_q_parameter of q-manual.py observes a body in the same way,       *)
(* through its own two `in` tests and its own four patterns.               *)
(*                                                                         *)
(* The three scripts are separate programs; each has its own variables and *)
(* its own specification, in which the other two do not run.               *)
(***************************************************************************)
EXTENDS Naturals, Sequences, FiniteSets

\* Largest number of entries of the input batch file.
MaxBatch == 3

\* ThreadPoolExecutor(max_workers=MAX_WORKERS); 100 in the source, scaled
\* down so that batches larger than the pool occur.
MAX_WORKERS == 2

\* if i % 1000 == 0 or i == total: 1000 in the source, scaled down so that
\* batches reach a multiple of the cadence before their end.
PROGRESS_EVERY == 2

\* q-manual.py: len(q_input) != 5; 5 in the source, scaled down.
ManualQLength == 2

\* q-generator.py: the largest alphabet, token length and TARGET_SIZE_BYTES
\* the generator is run with.
MaxChars == 3
MaxQLength == 2
MaxTargetBytes == 200

\* q-generator.py
BYTES_PER_ITEM == 30

VARIABLES
    input_file,     \* q-generated-N.json: [exists, json, value]
    params,         \* main: the loaded batch, a list of {"q": ..., "checked": false}
    pc,             \* main: "load" | "submit" | "collect" | "done", or how it ended
                    \* otherwise: "exit1" | "aborted" | "interrupted"
    future_to_q,    \* main: the futures submitted so far (position = future), each mapped to its q
    fstate,         \* per future: "pending" | "running" | "finished"
    response,       \* per future: what requests.get produced for its probe
    fresult,        \* per future: what check_q returned (or raised)
    calls,          \* per future: outbound network calls issued for it
    yielded,        \* futures as_completed has already yielded
    i,              \* main: the loop counter of enumerate(as_completed(...), 1)
    success_items,  \* main: results appended so far, in completion order
    progress,       \* main: the last progress line printed
    output_file,    \* the output file: [written, data]
    \* q-manual.py
    manual_file,     \* manual/generated.json: [exists, json, data]
    manual_pc,       \* main: "check" | "update", or how the last invocation
                     \* ended: "usage" | "invalid" | "duplicate" | "saved"
    q_input,         \* main: the stripped argument of the running invocation
    manual_response, \* check_q_parameter: what requests.get produced
    manual_result,   \* main: what check_q_parameter returned
    \* q-generator.py
    CHARS,             \* the alphabet, a str
    Q_LENGTH,
    TARGET_SIZE_BYTES,
    all_combinations,  \* the combinations the iterator has yet to yield
    generator_pc,      \* "loop" | "done"
    file_index,
    current_batch,
    current_size,
    generated_files    \* q-generated-<index>.json: index -> items written

checker_vars == <<input_file, params, pc, future_to_q, fstate, response, fresult,
                  calls, yielded, i, success_items, progress, output_file>>

manual_vars == <<manual_file, manual_pc, q_input, manual_response, manual_result>>

generator_vars == <<CHARS, Q_LENGTH, TARGET_SIZE_BYTES, all_combinations,
                    generator_pc, file_index, current_batch, current_size,
                    generated_files>>

vars == <<checker_vars, manual_vars, generator_vars>>

----------------------------------------------------------------------------
(* Tokens and their order *)

\* The q values that occur in batches: "a", "ab", "b" as character codes.
Tokens == {<<1>>, <<1, 2>>, <<2>>}

\* Python's str `<`: lexicographic, a proper prefix is smaller.
RECURSIVE StrLess(_, _)
StrLess(a, b) ==
    IF b = <<>> THEN FALSE
    ELSE IF a = <<>> THEN TRUE
    ELSE IF Head(a) # Head(b) THEN Head(a) < Head(b)
    ELSE StrLess(Tail(a), Tail(b))

\* Batches: every list of at most MaxBatch items over Tokens (repeats included).
Item(t) == [q |-> t, checked |-> FALSE]

Batches == UNION {[1..n -> {Item(t) : t \in Tokens}] : n \in 0..MaxBatch}

\* An entry without a token field.
ItemWithoutQ == [checked |-> FALSE]

\* Lists of at most MaxBatch items with an entry that has no "q".
BatchesWithoutQ ==
    { b \in UNION {[1..n -> {Item(<<1>>), Item(<<2>>), ItemWithoutQ}] : n \in 1..MaxBatch} :
        \E k \in 1..Len(b) : b[k] = ItemWithoutQ }

\* The input file: a JSON list, text that is not JSON, or no file.
FileOf(b) == [exists |-> TRUE, json |-> "valid", value |-> b]

NotJsonFile == [exists |-> TRUE, json |-> "invalid", value |-> <<>>]

NoFile == [exists |-> FALSE, json |-> "invalid", value |-> <<>>]

MalformedFiles == {FileOf(b) : b \in BatchesWithoutQ} \cup {NotJsonFile, NoFile}

IsMalformed(f) ==
    \/ ~f.exists
    \/ f.json # "valid"
    \/ \E k \in 1..Len(f.value) : "q" \notin DOMAIN f.value[k]

----------------------------------------------------------------------------
(* Python values *)

NoneValue == [q |-> <<>>, status |-> "None", type |-> "None", details |-> {}]

\* dict.get(key): the value, or None ("None") when the key is absent.
DictGet(d, key) ==
    IF \E p \in d : p[1] = key
    THEN (CHOOSE p \in d : p[1] = key)[2]
    ELSE "None"

\* What json.loads returns for the bodies considered; kind "invalid" stands
\* for text that is not JSON (json.loads raises JSONDecodeError).
JsonObjects ==
    { {<<"ok", "true">>, <<"x", "1">>},
      {<<"ok", "true">>},
      {<<"ok", "false">>},
      {<<"ok", "1">>},
      {<<"ok", "\"true\"">>},
      {<<"ok", "null">>},
      {<<"x", "1">>},
      {} }

JsonValues ==
    {[kind |-> "object", members |-> m] : m \in JsonObjects}
    \cup {[kind |-> k, members |-> {}] : k \in {"array", "string", "number", "true", "null"}}

NotJson == [kind |-> "invalid", members |-> {}]

\* What a re.search of extract_movie_details captures ("NoMatch": no match).
NameCaptures == {"NoMatch", " Dune "}
RatingCaptures == {"NoMatch", "8.0/10"}
YearCaptures == {"NoMatch", "2021"}
SummaryCaptures == {"NoMatch", " A  desert <b>planet", "plot"}

\* The name pattern starts with the name marker, so a body without the
\* marker has no name match.
Bodies ==
    [json : JsonValues \cup {NotJson}, details_marker : BOOLEAN,
     name_marker : {TRUE}, name : NameCaptures, rating : RatingCaptures,
     year : YearCaptures, summary : SummaryCaptures]
    \cup
    [json : JsonValues \cup {NotJson}, details_marker : BOOLEAN,
     name_marker : {FALSE}, name : {"NoMatch"}, rating : RatingCaptures,
     year : YearCaptures, summary : SummaryCaptures]

EmptyBody == [json |-> NotJson, details_marker |-> FALSE, name_marker |-> FALSE,
              name |-> "NoMatch", rating |-> "NoMatch", year |-> "NoMatch",
              summary |-> "NoMatch"]

\* requests.get: a response, or a RequestException (timeout, connection
\* error, DNS failure, protocol error).
StatusCodes == {200, 404}

AllResponses ==
    [exc : {"none"}, status_code : StatusCodes, body : Bodies]

TransportFailure == [exc |-> "RequestException", status_code |-> 0, body |-> EmptyBody]

NoResponse == [exc |-> "pending", status_code |-> 0, body |-> EmptyBody]

\* The endpoint as a batch run sees it: one response per way a probe can
\* end (non-200, JSON success, HTML detail page), besides a transport failure.
HtmlPage == [json |-> NotJson, details_marker |-> TRUE, name_marker |-> TRUE,
             name |-> " Dune ", rating |-> "8.0/10", year |-> "NoMatch",
             summary |-> "plot"]

JsonSuccess == [EmptyBody EXCEPT !.json =
                   [kind |-> "object", members |-> {<<"ok", "true">>, <<"x", "1">>}]]

RunResponses ==
    { [exc |-> "none", status_code |-> 404, body |-> JsonSuccess],
      [exc |-> "none", status_code |-> 200, body |-> JsonSuccess],
      [exc |-> "none", status_code |-> 200, body |-> HtmlPage] }

----------------------------------------------------------------------------
(* q-checker.py: is_valid_html_page, extract_movie_details, check_q *)

is_valid_html_page(html_content) ==
    html_content.details_marker /\ html_content.name_marker

\* str.strip() of the captures considered.
Strip(s) ==
    CASE s = " Dune " -> "Dune"
      [] s = " A  desert <b>planet" -> "A  desert <b>planet"
      [] OTHER -> s

\* re.sub(r'<[^>]+>', '', summary), then re.sub(r'\s+', ' ', summary).strip()
\* of the captures considered; all are shorter than 500 characters, so the
\* result is kept whole.
CleanSummary(s) ==
    CASE s = " A  desert <b>planet" -> "A desert planet"
      [] OTHER -> s

\* Mutant: one pattern for the four fields; if a field is missing, none matches.
extract_movie_details_AllOrNothing(html_content) ==
    IF "NoMatch" \in {html_content.name, html_content.rating, html_content.year,
                      html_content.summary}
    THEN { <<"name", "Unknown">>, <<"rating", "Unknown">>, <<"year", "Unknown">>,
           <<"summary", "No summary available">> }
    ELSE { <<"name", Strip(html_content.name)>>,
           <<"rating", Strip(html_content.rating)>>,
           <<"year", Strip(html_content.year)>>,
           <<"summary", CleanSummary(html_content.summary)>> }

extract_movie_details(html_content) ==
    { <<"name", IF html_content.name # "NoMatch"
                THEN Strip(html_content.name) ELSE "Unknown">>,
      <<"rating", IF html_content.rating # "NoMatch"
                  THEN Strip(html_content.rating) ELSE "Unknown">>,
      <<"year", IF html_content.year # "NoMatch"
                THEN Strip(html_content.year) ELSE "Unknown">>,
      <<"summary", IF html_content.summary # "NoMatch"
                   THEN CleanSummary(html_content.summary)
                   ELSE "No summary available">> }

\* What a piece of code does: return a value or raise an exception.
Return(v) == [exc |-> "none", value |-> v]
Raise(e) == [exc |-> e, value |-> NoneValue]

\* json.loads(content)
json_loads(content) ==
    IF content.json.kind = "invalid" THEN Raise("JSONDecodeError")
    ELSE [exc |-> "none", value |-> content.json]

\* Mutant: the truth value of data.get("ok") instead of `is True`.
ok_is_Truthy(data) ==
    IF data.kind # "object" THEN [exc |-> "AttributeError", value |-> FALSE]
    ELSE [exc |-> "none",
          value |-> (DictGet(data.members, "ok") \notin {"None", "false", "null"})]

\* data.get("ok") is True: only a dict has .get, and only JSON true is True.
ok_is_True(data) ==
    IF data.kind # "object" THEN Raise("AttributeError")
    ELSE [exc |-> "none", value |-> (DictGet(data.members, "ok") = "true")]

\* lines 107-118: except json.JSONDecodeError, the HTML branch.
html_path(q_value, content) ==
    IF is_valid_html_page(content)
    THEN Return([q |-> q_value, status |-> "active", type |-> "html",
                 details |-> extract_movie_details(content)])
    ELSE Return(NoneValue)

\* Mutant: JSON without ok true is looked at as HTML.
json_path_FallsToHtml(q_value, content, data) ==
    LET test == ok_is_True(data)
    IN  IF test.exc = "none" /\ test.value
        THEN Return([q |-> q_value, status |-> "active", type |-> "json",
                     details |-> data.members])
        ELSE html_path(q_value, content)

\* lines 98-106: the JSON branch; an exception of the test leaves check_q's
\* inner try (it is no JSONDecodeError).
json_path(q_value, content, data) ==
    LET test == ok_is_True(data)
    IN  IF test.exc # "none" THEN Raise(test.exc)
        ELSE IF test.value
        THEN Return([q |-> q_value, status |-> "active", type |-> "json",
                     details |-> data.members])
        ELSE Return(NoneValue)

\* Mutant: the status code is not looked at.
check_q_try_AnyStatus(q_value, resp) ==
    IF resp.exc # "none" THEN Raise(resp.exc)
    ELSE LET content == resp.body
             parsed == json_loads(content)
         IN  IF parsed.exc = "none"
             THEN json_path(q_value, content, parsed.value)
             ELSE html_path(q_value, content)

\* The body of check_q's outer try block (lines 89-118).
check_q_try(q_value, resp) ==
    IF resp.exc # "none" THEN Raise(resp.exc)
    ELSE IF resp.status_code # 200 THEN Return(NoneValue)
    ELSE LET content == resp.body     \* .strip() changes none of the observations
             parsed == json_loads(content)
         IN  IF parsed.exc = "none"
             THEN json_path(q_value, content, parsed.value)
             ELSE html_path(q_value, content)

\* Mutant: no except clause around the probe.
Caught_Nothing(e) == FALSE

\* The exceptions check_q's except clauses catch (lines 120-123):
\* requests.RequestException and Exception.
Caught(e) == e \in {"RequestException", "AttributeError", "JSONDecodeError"}

check_q(q_value, resp) ==
    LET r == check_q_try(q_value, resp)
    IN  IF r.exc # "none" /\ Caught(r.exc) THEN Return(NoneValue) ELSE r

----------------------------------------------------------------------------
(* q-checker.py: main *)

total == Len(params)

Futures == DOMAIN future_to_q

\* Probes whose network call has started and not completed.
InFlight == {k \in Futures : fstate[k] = "running"}

\* Mutant: a thread per submitted job, no ceiling.
WorkerFree_Unbounded == TRUE

\* ThreadPoolExecutor(max_workers=MAX_WORKERS): a work item is taken up only
\* by one of at most MAX_WORKERS worker threads, each running one at a time.
WorkerFree == Cardinality(InFlight) < MAX_WORKERS

\* The executor's work queue is first in, first out.
NextQueued(k) ==
    /\ k \in Futures
    /\ fstate[k] = "pending"
    /\ \A j \in Futures : j < k => fstate[j] # "pending"

\* Mutant: a finished future is yielded again.
as_completed_Again == {k \in Futures : fstate[k] = "finished"}

\* as_completed(future_to_q): the futures it can yield next; each is yielded once.
as_completed == {k \in Futures : fstate[k] = "finished" /\ k \notin yielded}

\* Mutant: every result is appended, None included.
Aggregate_All(items, result) == Append(items, result)

\* if result: success_items.append(result)
Aggregate(items, result) ==
    IF result # NoneValue THEN Append(items, result) ELSE items

\* Mutant: the list is written in completion order.
SortedByQ_Unsorted(s) == s

\* The place sorted() gives s[j]: after every element with a smaller q and
\* after the earlier elements with an equal q (the sort is stable).
PlaceByQ(s, j) ==
    1 + Cardinality({m \in 1..Len(s) :
                        \/ StrLess(s[m].q, s[j].q)
                        \/ (s[m].q = s[j].q /\ m < j)})

\* sorted(success_items, key=lambda x: x["q"])
SortedByQ(s) ==
    [p \in 1..Len(s) |-> s[CHOOSE j \in 1..Len(s) : PlaceByQ(s, j) = p]]

\* Mutant: no progress line at the final completion.
ProgressDue_CadenceOnly(n) == n % PROGRESS_EVERY = 0

\* if i % 1000 == 0 or i == total
ProgressDue(n) == n % PROGRESS_EVERY = 0 \/ n = total

NoProgress == [completed |-> 0, total |-> 0, success |-> 0]

\* q-manual.py has not been invoked: there is no manual/generated.json.
ManualNotRun ==
    /\ manual_file = [exists |-> FALSE, json |-> "valid", data |-> <<>>]
    /\ manual_pc = "idle"
    /\ q_input = <<>>
    /\ manual_response = NoResponse
    /\ manual_result = NoneValue

\* q-generator.py is not run.
GeneratorNotRun ==
    /\ CHARS = <<>>
    /\ Q_LENGTH = 0
    /\ TARGET_SIZE_BYTES = 0
    /\ all_combinations = <<>>
    /\ generator_pc = "off"
    /\ file_index = 1
    /\ current_batch = <<>>
    /\ current_size = 0
    /\ generated_files = <<>>

\* main is started on an input file (sys.argv is well formed).
InitFiles(files) ==
    /\ input_file \in files
    /\ params = <<>>
    /\ pc = "load"
    /\ future_to_q = <<>>
    /\ fstate = <<>>
    /\ response = <<>>
    /\ fresult = <<>>
    /\ calls = <<>>
    /\ yielded = {}
    /\ i = 0
    /\ success_items = <<>>
    /\ progress = NoProgress
    /\ output_file = [written |-> FALSE, data |-> <<>>]
    /\ ManualNotRun
    /\ GeneratorNotRun

\* q-checker.py is not run.
CheckerNotRun ==
    /\ input_file = NoFile
    /\ params = <<>>
    /\ pc = "off"
    /\ future_to_q = <<>>
    /\ fstate = <<>>
    /\ response = <<>>
    /\ fresult = <<>>
    /\ calls = <<>>
    /\ yielded = {}
    /\ i = 0
    /\ success_items = <<>>
    /\ progress = NoProgress
    /\ output_file = [written |-> FALSE, data |-> <<>>]

InitOver(batches) == InitFiles({FileOf(b) : b \in batches})

Init == InitOver(Batches)

\* lines 142-153: a missing file or text that is not JSON ends main with
\* sys.exit(1); otherwise params is the loaded list.
Load ==
    /\ pc = "load"
    /\ IF input_file.exists /\ input_file.json = "valid"
       THEN /\ params' = input_file.value
            /\ pc' = "submit"
       ELSE /\ pc' = "exit1"
            /\ UNCHANGED params
    /\ UNCHANGED <<input_file, future_to_q, fstate, response, fresult, calls,
                   yielded, i, success_items, progress, output_file>>
    /\ UNCHANGED <<manual_vars, generator_vars>>

\* Mutant: an empty batch returns without writing.
EmptyBatch_NoOutput ==
    /\ pc = "submit"
    /\ total = 0
    /\ pc' = "done"
    /\ UNCHANGED <<input_file, params, future_to_q, fstate, response, fresult,
                   calls, yielded, i, success_items, progress, output_file>>
    /\ UNCHANGED <<manual_vars, generator_vars>>

\* lines 155-160: an empty batch writes [] and returns.
EmptyBatch ==
    /\ pc = "submit"
    /\ total = 0
    /\ output_file' = [written |-> TRUE, data |-> <<>>]
    /\ pc' = "done"
    /\ UNCHANGED <<input_file, params, future_to_q, fstate, response, fresult,
                   calls, yielded, i, success_items, progress>>
    /\ UNCHANGED <<manual_vars, generator_vars>>

\* lines 172-175: executor.submit(check_q, item["q"]): item["q"] for the next
\* item of the comprehension. item["q"] raises KeyError for an item without
\* "q": main ends with it, after the with block has waited for the probes
\* submitted so far.
Submit ==
    /\ pc = "submit"
    /\ Len(future_to_q) < total
    /\ LET item == params[Len(future_to_q) + 1]
       IN  IF "q" \in DOMAIN item
           THEN /\ future_to_q' = Append(future_to_q, item.q)
                /\ fstate' = Append(fstate, "pending")
                /\ response' = Append(response, NoResponse)
                /\ fresult' = Append(fresult, Return(NoneValue))
                /\ calls' = Append(calls, 0)
                /\ pc' = IF Len(future_to_q) + 1 = total THEN "collect" ELSE "submit"
           ELSE /\ pc' = "aborted"
                /\ UNCHANGED <<future_to_q, fstate, response, fresult, calls>>
    /\ UNCHANGED <<input_file, params, yielded, i, success_items, progress,
                   output_file>>
    /\ UNCHANGED <<manual_vars, generator_vars>>

\* A worker thread takes the next work item and check_q issues requests.get (line 89).
StartProbe(k) ==
    /\ NextQueued(k)
    /\ WorkerFree
    /\ fstate' = [fstate EXCEPT ![k] = "running"]
    /\ calls' = [calls EXCEPT ![k] = @ + 1]
    /\ UNCHANGED <<input_file, params, pc, future_to_q, response, fresult,
                   yielded, i, success_items, progress, output_file>>
    /\ UNCHANGED <<manual_vars, generator_vars>>

\* Mutant: a probe whose request failed is queued again.
FinishProbe_Retry(k, resp) ==
    /\ k \in Futures
    /\ fstate[k] = "running"
    /\ response' = [response EXCEPT ![k] = resp]
    /\ fresult' = [fresult EXCEPT ![k] = check_q(future_to_q[k], resp)]
    /\ fstate' = [fstate EXCEPT ![k] = IF resp.exc = "none" THEN "finished"
                                                             ELSE "pending"]
    /\ UNCHANGED <<input_file, params, pc, future_to_q, calls, yielded, i,
                   success_items, progress, output_file>>
    /\ UNCHANGED <<manual_vars, generator_vars>>

\* requests.get returns resp or raises; check_q classifies it and the future
\* is finished with what check_q returned or raised (lines 89-123).
FinishProbe(k, resp) ==
    /\ k \in Futures
    /\ fstate[k] = "running"
    /\ response' = [response EXCEPT ![k] = resp]
    /\ fresult' = [fresult EXCEPT ![k] = check_q(future_to_q[k], resp)]
    /\ fstate' = [fstate EXCEPT ![k] = "finished"]
    /\ UNCHANGED <<input_file, params, pc, future_to_q, calls, yielded, i,
                   success_items, progress, output_file>>
    /\ UNCHANGED <<manual_vars, generator_vars>>

\* lines 178-189: one iteration of the loop over as_completed; future.result()
\* re-raises what check_q raised, which ends main; otherwise the result is
\* aggregated and the progress line printed when it is due.
Collect(k) ==
    /\ pc = "collect"
    /\ k \in as_completed
    /\ yielded' = yielded \cup {k}
    /\ i' = i + 1
    /\ IF fresult[k].exc # "none"
       THEN /\ pc' = "aborted"
            /\ UNCHANGED <<success_items, progress>>
       ELSE /\ pc' = pc
            /\ success_items' = Aggregate(success_items, fresult[k].value)
            /\ progress' = IF ProgressDue(i + 1)
                           THEN [completed |-> i + 1, total |-> total,
                                 success |-> Len(success_items')]
                           ELSE progress
    /\ UNCHANGED <<input_file, params, future_to_q, fstate, response, fresult,
                   calls, output_file>>
    /\ UNCHANGED <<manual_vars, generator_vars>>

\* An external interrupt: KeyboardInterrupt is raised in main, which has no
\* handler for it; the with block's exit waits for the submitted probes,
\* queued ones included, and main ends with the exception.
Interrupt ==
    /\ pc \in {"submit", "collect"}
    /\ pc' = "interrupted"
    /\ UNCHANGED <<input_file, params, future_to_q, fstate, response, fresult,
                   calls, yielded, i, success_items, progress, output_file>>
    /\ UNCHANGED <<manual_vars, generator_vars>>

\* Mutant: the loop is left at the first valid result.
Save_AtFirstValid ==
    /\ pc = "collect"
    /\ (yielded = Futures \/ success_items # <<>>)
    /\ output_file' = [written |-> TRUE, data |-> SortedByQ(success_items)]
    /\ pc' = "done"
    /\ UNCHANGED <<input_file, params, future_to_q, fstate, response, fresult,
                   calls, yielded, i, success_items, progress>>
    /\ UNCHANGED <<manual_vars, generator_vars>>

\* lines 191-194: the loop has ended; sort and write the output file.
Save ==
    /\ pc = "collect"
    /\ yielded = Futures
    /\ output_file' = [written |-> TRUE, data |-> SortedByQ(success_items)]
    /\ pc' = "done"
    /\ UNCHANGED <<input_file, params, future_to_q, fstate, response, fresult,
                   calls, yielded, i, success_items, progress>>
    /\ UNCHANGED <<manual_vars, generator_vars>>

NextOver(responses) ==
    \/ Load
    \/ EmptyBatch
    \/ Submit
    \/ \E k \in Futures : StartProbe(k)
    \/ \E k \in InFlight : \E resp \in responses : FinishProbe(k, resp)
    \/ \E k \in Futures : Collect(k)
    \/ Save

\* A batch run against the endpoint.
Next == NextOver(RunResponses \cup {TransportFailure})

Spec == Init /\ [][Next]_vars

\* One probe: a batch of at most one candidate against every response of
\* the endpoint.
ProbeBatches == {b \in Batches : Len(b) <= 1}

ProbeInit == InitOver(ProbeBatches)

ProbeNext == NextOver(AllResponses \cup {TransportFailure})

ProbeSpec == ProbeInit /\ [][ProbeNext]_vars

\* A batch run on any input file, well formed or not.
InputInit == InitFiles({FileOf(b) : b \in Batches} \cup MalformedFiles)

InputSpec == InputInit /\ [][Next]_vars

\* A batch run that may be interrupted.
CancelNext == Next \/ Interrupt

CancelSpec == Init /\ [][CancelNext]_vars

\* The batches over the tokens "a" and "b".
FairBatches == {b \in Batches : \A j \in 1..Len(b) : b[j].q # <<1, 2>>}

\* A batch run whose steps are eventually taken: the worker threads run and
\* every request returns or times out (timeout=TIMEOUT).
FairSpec == InitOver(FairBatches) /\ [][Next]_vars /\ WF_vars(Next)

----------------------------------------------------------------------------
(* q-manual.py: check_q_parameter, load_existing_results, save_results, main *)

\* Character codes of a command-line argument: whitespace, letters and
\* digits, and a printable character that is neither.
Whitespace == {0}
Alnum == {1, 2}
Punctuation == {3}

\* The arguments that pass the test of lines 122-125.
ManualTokens == [1..ManualQLength -> Alnum]

\* sys.argv[1:]: no argument, or one argument: a token, a token between
\* blanks, the empty string, blanks only, a longer string, or a string of
\* the right length with a character that is not alphanumeric.
ManualArgv ==
    {<<>>}
    \cup {<<t>> : t \in ManualTokens}
    \cup {<< <<0>> \o t \o <<0, 0>> >> : t \in ManualTokens}
    \cup {<< <<>> >>, << <<0>> >>}
    \cup {<< t \o <<1>> >> : t \in ManualTokens}
    \cup {<< [t EXCEPT ![1] = 3] >> : t \in ManualTokens}

RECURSIVE lstrip(_)
lstrip(s) ==
    IF s # <<>> /\ Head(s) \in Whitespace THEN lstrip(Tail(s)) ELSE s

RECURSIVE rstrip(_)
rstrip(s) ==
    IF s # <<>> /\ s[Len(s)] \in Whitespace
    THEN rstrip(SubSeq(s, 1, Len(s) - 1))
    ELSE s

\* str.strip()
strip(s) == rstrip(lstrip(s))

\* str.isalnum(): not empty and every character alphanumeric.
isalnum(s) == s # <<>> /\ \A j \in 1..Len(s) : s[j] \in Alnum

\* What the endpoint answers to a manual lookup: besides the responses of a
\* batch run, JSON that reports failure, JSON that is no object, and HTML
\* with one marker or none.
ManualResponses ==
    RunResponses
    \cup { [exc |-> "none", status_code |-> 200,
            body |-> [EmptyBody EXCEPT !.json =
                         [kind |-> "object", members |-> {<<"ok", "false">>}]]],
           [exc |-> "none", status_code |-> 200,
            body |-> [EmptyBody EXCEPT !.json =
                         [kind |-> "array", members |-> {}]]],
           [exc |-> "none", status_code |-> 200,
            body |-> [HtmlPage EXCEPT !.details_marker = FALSE]],
           [exc |-> "none", status_code |-> 200, body |-> EmptyBody],
           [exc |-> "none", status_code |-> 404, body |-> HtmlPage],
           TransportFailure }

\* lines 58-62: each field is its capture, or "Unknown"; the name and the
\* summary are stripped.
manual_details(content) ==
    { <<"name", IF content.name # "NoMatch"
                THEN Strip(content.name) ELSE "Unknown">>,
      <<"rating", IF content.rating # "NoMatch"
                  THEN content.rating ELSE "Unknown">>,
      <<"year", IF content.year # "NoMatch"
                THEN content.year ELSE "Unknown">>,
      <<"summary", IF content.summary # "NoMatch"
                   THEN Strip(content.summary) ELSE "Unknown">> }

\* The body of check_q_parameter's outer try block (lines 39-71).
check_q_parameter_try(q_value, resp) ==
    IF resp.exc # "none" THEN Raise(resp.exc)
    ELSE IF resp.status_code # 200 THEN Return(NoneValue)
    ELSE LET content == resp.body     \* .strip() changes none of the observations
             parsed == json_loads(content)
         IN  IF parsed.exc = "none"
             THEN LET test == ok_is_True(parsed.value)
                  IN  IF test.exc # "none" THEN Raise(test.exc)
                      ELSE IF test.value
                      THEN Return([q |-> strip(q_value), status |-> "active",
                                   type |-> "json",
                                   details |-> parsed.value.members])
                      ELSE Return(NoneValue)
             ELSE IF content.details_marker /\ content.name_marker
             THEN Return([q |-> strip(q_value), status |-> "active",
                          type |-> "html",
                          details |-> manual_details(content)])
             ELSE Return(NoneValue)

\* lines 73-78: requests.exceptions.RequestException and Exception are
\* caught, and None is returned.
check_q_parameter(q_value, resp) ==
    LET r == check_q_parameter_try(q_value, resp)
    IN  IF r.exc # "none" THEN NoneValue ELSE r.value

\* Mutant: the list always starts fresh.
load_existing_results_Fresh(file) == <<>>

\* A missing file, an empty file and a file that is not JSON give [].
load_existing_results(file) ==
    IF ~file.exists THEN <<>>
    ELSE IF file.json # "valid" THEN <<>>
    ELSE file.data

\* sorted(results, key=lambda x: x["q"]) written with json.dump; what
\* json.loads reads back from it is the list written.
save_results(results) ==
    [exists |-> TRUE, json |-> "valid", data |-> SortedByQ(results)]

\* Mutant: no lookup of the token in the saved list.
AlreadySaved_Never(existing, q) == FALSE

\* line 147: any(item["q"] == q_input for item in existing)
AlreadySaved(existing, q) == \E j \in 1..Len(existing) : existing[j].q = q

ManualEnded == {"idle", "usage", "invalid", "duplicate", "saved"}

\* lines 117-127: the argument count and format; a process that ended has no
\* variables left.
ManualStart(argv) ==
    /\ manual_pc \in ManualEnded
    /\ IF Len(argv) # 1
       THEN /\ manual_pc' = "usage"
            /\ q_input' = <<>>
       ELSE LET q == strip(argv[1])
            IN  IF Len(q) # ManualQLength \/ ~isalnum(q)
                THEN /\ manual_pc' = "usage"
                     /\ q_input' = <<>>
                ELSE /\ manual_pc' = "check"
                     /\ q_input' = q
    /\ manual_response' = NoResponse
    /\ manual_result' = NoneValue
    /\ UNCHANGED <<manual_file, checker_vars, generator_vars>>

\* lines 130-138: the lookup; `if not result` ends the invocation.
ManualCheck(resp) ==
    /\ manual_pc = "check"
    /\ LET result == check_q_parameter(q_input, resp)
       IN  IF result = NoneValue
           THEN /\ manual_pc' = "invalid"
                /\ q_input' = <<>>
                /\ manual_response' = NoResponse
                /\ manual_result' = NoneValue
           ELSE /\ manual_pc' = "update"
                /\ manual_response' = resp
                /\ manual_result' = result
                /\ UNCHANGED q_input
    /\ UNCHANGED <<manual_file, checker_vars, generator_vars>>

\* lines 141-155: load the saved list, leave if the token is in it, append
\* and save otherwise.
ManualUpdate ==
    /\ manual_pc = "update"
    /\ LET existing == load_existing_results(manual_file)
       IN  IF AlreadySaved(existing, q_input)
           THEN /\ manual_pc' = "duplicate"
                /\ UNCHANGED manual_file
           ELSE /\ manual_file' = save_results(Append(existing, manual_result))
                /\ manual_pc' = "saved"
    /\ q_input' = <<>>
    /\ manual_response' = NoResponse
    /\ manual_result' = NoneValue
    /\ UNCHANGED <<checker_vars, generator_vars>>

ManualInit ==
    /\ CheckerNotRun
    /\ ManualNotRun
    /\ GeneratorNotRun

ManualNext ==
    \/ \E argv \in ManualArgv : ManualStart(argv)
    \/ \E resp \in ManualResponses : ManualCheck(resp)
    \/ ManualUpdate

\* Any sequence of invocations of q-manual.py, one after the other.
ManualSpec == ManualInit /\ [][ManualNext]_vars

----------------------------------------------------------------------------
(* q-generator.py *)

\* CHARS: a str of distinct characters. A code up to 100 stands for a
\* character of one byte in UTF-8 (as those of string.ascii_lowercase), a
\* code above 100 for a character of four bytes.
Alphabets ==
    {[j \in 1..n |-> j] : n \in 0..MaxChars}
    \cup {[j \in 1..n |-> 100 + j] : n \in 0..MaxChars}

\* itertools.product(chars, repeat=repeat), as the list of what it yields:
\* the first position varies slowest.
RECURSIVE product(_, _)
product(chars, repeat) ==
    IF repeat = 0 THEN << <<>> >>
    ELSE LET rest == product(chars, repeat - 1)
             n == Len(rest)
         IN  [j \in 1..(Len(chars) * n) |->
                 <<chars[((j - 1) \div n) + 1]>> \o rest[((j - 1) % n) + 1]]

\* len(s.encode('utf-8'))
RECURSIVE utf8_len(_)
utf8_len(s) ==
    IF s = <<>> THEN 0
    ELSE (IF Head(s) > 100 THEN 4 ELSE 1) + utf8_len(Tail(s))

\* lines 27-29: json.dumps(item, ensure_ascii=False) is
\* {"q": "<q_value>", "checked": false}, 27 bytes besides q_value, and ",\n"
\* adds 2.
item_size(q_value) == 29 + utf8_len(q_value)

\* line 12
items_per_file == TARGET_SIZE_BYTES \div BYTES_PER_ITEM

\* Mutant: only the byte size ends a file.
FileIsFull_BytesOnly(batch, size) == size >= TARGET_SIZE_BYTES

\* line 34
FileIsFull(batch, size) ==
    Len(batch) >= items_per_file \/ size >= TARGET_SIZE_BYTES

\* lines 35-41 and 51-56: open(filepath, 'w') of q-generated-<index>.json
\* and the write of the batch as a JSON array; the file is modelled by the
\* list of items the array holds.
WriteFile(files, index, batch) ==
    [k \in DOMAIN files \cup {index} |-> IF k = index THEN batch ELSE files[k]]

GeneratorInit ==
    /\ CheckerNotRun
    /\ ManualNotRun
    /\ CHARS \in Alphabets
    /\ Q_LENGTH \in 0..MaxQLength
    /\ TARGET_SIZE_BYTES \in 0..MaxTargetBytes
    /\ all_combinations = product(CHARS, Q_LENGTH)
    /\ generator_pc = "loop"
    /\ file_index = 1
    /\ current_batch = <<>>
    /\ current_size = 0
    /\ generated_files = <<>>

\* lines 25-48: one iteration of the loop.
GeneratorStep ==
    /\ generator_pc = "loop"
    /\ all_combinations # <<>>
    /\ LET q_value == Head(all_combinations)
           batch == Append(current_batch, Item(q_value))
           size == current_size + item_size(q_value)
       IN  IF FileIsFull(batch, size)
           THEN /\ generated_files' = WriteFile(generated_files, file_index, batch)
                /\ file_index' = file_index + 1
                /\ current_batch' = <<>>
                /\ current_size' = 0
           ELSE /\ current_batch' = batch
                /\ current_size' = size
                /\ UNCHANGED <<generated_files, file_index>>
    /\ all_combinations' = Tail(all_combinations)
    /\ UNCHANGED <<CHARS, Q_LENGTH, TARGET_SIZE_BYTES, generator_pc,
                   checker_vars, manual_vars>>

\* lines 50-59: the iterator is exhausted; what is left is written.
GeneratorEnd ==
    /\ generator_pc = "loop"
    /\ all_combinations = <<>>
    /\ generated_files' = IF current_batch # <<>>
                          THEN WriteFile(generated_files, file_index, current_batch)
                          ELSE generated_files
    /\ generator_pc' = "done"
    /\ UNCHANGED <<CHARS, Q_LENGTH, TARGET_SIZE_BYTES, all_combinations,
                   file_index, current_batch, current_size,
                   checker_vars, manual_vars>>

GeneratorNext == GeneratorStep \/ GeneratorEnd

\* A run of q-generator.py for an alphabet, a token length and a target size.
GeneratorSpec == GeneratorInit /\ [][GeneratorNext]_vars

----------------------------------------------------------------------------
(* Claims about the batch run *)

Data == output_file.data

Count(s, r) == Cardinality({j \in 1..Len(s) : s[j] = r})

\* Futures whose probe was classified valid.
IsValid(k) == fresult[k].exc = "none" /\ fresult[k].value # NoneValue

\* C1: when the batch run ends, the completions consumed by the aggregation
\* loop are exactly the batch entries: the loop counter equals the number of
\* entries, every entry's future was yielded, and none was yielded twice.
C1_EveryCandidateOneResult ==
    /\ i = Cardinality(yielded)
    /\ pc = "done" => /\ i = Len(params)
                      /\ yielded = 1..Len(params)

\* A finished run of a batch in which the same token occurs twice.
C1_Witness ==
    /\ pc = "done"
    /\ i >= 2
    /\ \E j, k \in 1..Len(params) : j # k /\ params[j].q = params[k].q

\* C2: at most MAX_WORKERS probes have a network call outstanding.
C2_InFlightAtMostK == Cardinality(InFlight) <= MAX_WORKERS

\* The pool is full while a submitted probe waits.
C2_Witness ==
    /\ Cardinality(InFlight) = MAX_WORKERS
    /\ \E k \in Futures : fstate[k] = "pending"

\* C3: at the end of a run the written output holds exactly the results of
\* the entries whose probe was classified valid: each entry of the output has
\* a q of the batch, status "active" and type "json" or "html"; each result
\* occurs as often as there are entries that produced it, and a probe that
\* was invalid or failed contributes nothing.
C3_OutputIsTheValidResults ==
    pc = "done" =>
        /\ output_file.written
        /\ \A j \in 1..Len(Data) :
              /\ Data[j].status = "active"
              /\ Data[j].type \in {"json", "html"}
              /\ \E k \in 1..Len(params) : params[k].q = Data[j].q
        /\ \A k \in 1..Len(params) :
              IF IsValid(k)
              THEN /\ fresult[k].value.q = params[k].q
                   /\ Count(Data, fresult[k].value)
                        = Cardinality({m \in 1..Len(params) : fresult[m] = fresult[k]})
              ELSE Count(Data, fresult[k].value) = 0
        /\ Len(Data) = Cardinality({k \in 1..Len(params) : IsValid(k)})

\* A finished run with a valid probe, a non-200 probe and a failed probe.
C3_Witness ==
    /\ pc = "done"
    /\ Len(Data) = 1
    /\ \E k \in Futures : response[k] = TransportFailure
    /\ \E k \in Futures : response[k].exc = "none" /\ response[k].status_code # 200

SortedAscending(s) ==
    \A j, k \in 1..Len(s) : j < k => ~StrLess(s[k].q, s[j].q)

\* C4 as stated: the written output is sorted ascending by token and no two
\* of its entries have the same token.
C4_SortedNoDuplicateTokens ==
    pc = "done" =>
        \A j, k \in 1..Len(Data) : j < k => StrLess(Data[j].q, Data[k].q)

\* C4 amended: the written output is sorted ascending by token, and a token
\* occurs in it at most as often as it occurs in the batch (so not twice
\* when the batch holds it once).
C4_SortedAtMostBatchMultiplicity ==
    pc = "done" =>
        /\ SortedAscending(Data)
        /\ \A t \in Tokens :
              Cardinality({j \in 1..Len(Data) : Data[j].q = t})
                <= Cardinality({k \in 1..Len(params) : params[k].q = t})

\* A finished run whose results completed out of token order.
C4_Witness ==
    /\ pc = "done"
    /\ Len(Data) >= 2
    /\ ~SortedAscending(success_items)
    /\ \E j, k \in 1..Len(params) : j # k /\ params[j].q = params[k].q

\* The valid results of futures 1..n, in submission order.
RECURSIVE InSubmissionOrder(_)
InSubmissionOrder(n) ==
    IF n = 0 THEN <<>>
    ELSE LET rest == InSubmissionOrder(n - 1)
         IN  IF IsValid(n) THEN Append(rest, fresult[n].value) ELSE rest

\* The output of the run in which the probes complete in submission order.
InOrderOutput == SortedByQ(InSubmissionOrder(Len(params)))

\* C5 as stated: the written output does not depend on the completion order:
\* it is the output of the run with the same batch and the same per-probe
\* outcomes whose probes complete in submission order.
C5_OrderIndependent ==
    pc = "done" => Data = InOrderOutput

\* C5 amended: two runs with the same batch and per-probe outcomes write the
\* same entries with the same sequence of tokens; the outputs are identical
\* when no token has two valid entries.
C5_OrderIndependentUpToEqualTokens ==
    pc = "done" =>
        /\ Len(Data) = Len(InOrderOutput)
        /\ \A j \in 1..Len(Data) :
              /\ Data[j].q = InOrderOutput[j].q
              /\ Count(Data, Data[j]) = Count(InOrderOutput, Data[j])
        /\ (\A j, k \in 1..Len(Data) : j # k => Data[j].q # Data[k].q)
              => Data = InOrderOutput

\* A finished run whose valid probes, of distinct tokens, completed in an
\* order that is neither the submission order nor the token order.
C5_Witness ==
    /\ pc = "done"
    /\ Len(Data) >= 2
    /\ success_items # InSubmissionOrder(Len(params))
    /\ success_items # Data
    /\ \A j, k \in 1..Len(Data) : j # k => Data[j].q # Data[k].q

----------------------------------------------------------------------------
(* Claims about one probe *)

Finished == {k \in Futures : fstate[k] = "finished"}

Got200(k) == response[k].exc = "none" /\ response[k].status_code = 200

HasOkTrue(json) == json.kind = "object" /\ <<"ok", "true">> \in json.members

BothMarkers(body) == body.details_marker /\ body.name_marker

\* C6: a status-200 response whose body is valid JSON of any type without ok
\* equal to true is classified Invalid, whatever markers the body contains:
\* it is never looked at as HTML.
C6_JsonWithoutOkIsInvalid ==
    \A k \in Finished :
        (/\ Got200(k)
         /\ response[k].body.json.kind # "invalid"
         /\ ~HasOkTrue(response[k].body.json))
        => fresult[k] = Return(NoneValue)

\* A JSON object without ok true, and a JSON array, each with both markers
\* in its text, have been classified and the run has ended.
C6_Witness ==
    /\ pc = "done"
    /\ \E k \in Finished :
          /\ Got200(k)
          /\ BothMarkers(response[k].body)
          /\ response[k].body.name # "NoMatch"
          /\ response[k].body.json \in
                {[kind |-> "object", members |-> {<<"ok", "false">>}],
                 [kind |-> "array", members |-> {}]}
          /\ Data = <<>>

\* C7: a response whose status code is not 200 is classified Invalid
\* regardless of its body.
C7_Non200IsInvalid ==
    \A k \in Finished :
        (response[k].exc = "none" /\ response[k].status_code # 200)
        => fresult[k] = Return(NoneValue)

\* A 404 whose body is JSON with ok true and carries both markers.
C7_Witness ==
    \E k \in Finished :
        /\ response[k].exc = "none"
        /\ response[k].status_code = 404
        /\ HasOkTrue(response[k].body.json)
        /\ BothMarkers(response[k].body)

\* C8: for a status-200 response whose body parses as a JSON object, the
\* result is valid of type "json" iff ok is boolean true, and then its
\* details are the parsed object unchanged and its q is the probed
\* candidate; otherwise the result is Invalid.
C8_JsonObjectValidIffOkTrue ==
    \A k \in Finished :
        (Got200(k) /\ response[k].body.json.kind = "object")
        => fresult[k] =
             IF <<"ok", "true">> \in response[k].body.json.members
             THEN Return([q |-> params[k].q, status |-> "active", type |-> "json",
                          details |-> response[k].body.json.members])
             ELSE Return(NoneValue)

\* {"ok": true, "x": 1} was classified valid with x preserved, and written.
C8_Witness ==
    /\ pc = "done"
    /\ \E k \in Finished :
          /\ Got200(k)
          /\ response[k].body.json.members = {<<"ok", "true">>, <<"x", "1">>}
          /\ Data = <<fresult[k].value>>
          /\ <<"x", "1">> \in Data[1].details

\* C9: a transport failure of a probe is mapped to Invalid for that
\* candidate only and never ends the run: main is never aborted, a run that
\* has not ended can always take a step, and at its end every entry was
\* probed and counted, the failed ones have no entry in the output and
\* every valid one has.
C9_TransportFailureIsAbsorbed ==
    /\ pc # "aborted"
    /\ \A k \in Finished :
          response[k].exc # "none" => fresult[k] = Return(NoneValue)
    /\ pc # "done" => ENABLED Next
    /\ pc = "done" =>
          /\ i = Len(params)
          /\ \A k \in 1..Len(params) :
                /\ k \in Finished
                /\ k \in yielded
                /\ response[k].exc # "none"
                      => \A j \in 1..Len(Data) : Data[j] # fresult[k].value
                /\ IsValid(k) => \E j \in 1..Len(Data) : Data[j] = fresult[k].value

\* A finished run in which one probe failed and another was valid.
C9_Witness ==
    /\ pc = "done"
    /\ \E k \in Futures : response[k].exc = "RequestException"
    /\ \E k \in Futures : IsValid(k)
    /\ Len(Data) >= 1

\* C10: each batch entry causes exactly one network call: a submitted probe
\* has made no call while it is queued and one call from then on, whatever
\* the call's outcome, and at the end of the run every entry has made one.
C10_OneCallPerEntry ==
    /\ \A k \in Futures : calls[k] = IF fstate[k] = "pending" THEN 0 ELSE 1
    /\ pc = "done" =>
          /\ Futures = 1..Len(params)
          /\ \A k \in Futures : calls[k] = 1

\* A finished run in which a failed probe was called once.
C10_Witness ==
    /\ pc = "done"
    /\ Len(params) >= 2
    /\ \E k \in Futures : response[k].exc = "RequestException" /\ calls[k] = 1

----------------------------------------------------------------------------
(* Claims about the input, interruption, termination and progress of a run *)

\* C11: if the input batch is malformed (no file, not JSON, or an entry
\* without a token field anywhere in the list), the run fails before any
\* probing starts: no probe is submitted, no network call is made and the
\* run does not reach its normal end.
C11_MalformedBatchStartsNoProbe ==
    IsMalformed(input_file) =>
        /\ future_to_q = <<>>
        /\ \A k \in Futures : calls[k] = 0
        /\ pc # "done"

\* C12: when an interrupted run has ended (nothing is left to run), the
\* valid results aggregated before the interrupt have been written.
C12_InterruptKeepsPartialResults ==
    (pc = "interrupted" /\ success_items # <<>> /\ ~ENABLED CancelNext) =>
        /\ output_file.written
        /\ \A j \in 1..Len(success_items) :
              \E m \in 1..Len(Data) : Data[m] = success_items[j]

\* C13: a run on a well-formed batch whose probes each return eventually
\* ends with its output written; the output is written only after every
\* submitted candidate has produced its result and was consumed, whatever
\* results were valid.
C13_RunCompletesAfterAllResults ==
    /\ [](output_file.written =>
            /\ Len(future_to_q) = Len(params)
            /\ \A k \in 1..Len(params) : fstate[k] = "finished" /\ k \in yielded)
    /\ <>(pc = "done" /\ output_file.written)

\* A finished run whose first entry was valid and whose last entry was
\* still probed and consumed.
C13_Witness ==
    /\ pc = "done"
    /\ output_file.written
    /\ Len(params) >= 2
    /\ IsValid(1)
    /\ ~IsValid(Len(params))
    /\ Len(params) \in yielded

\* C14: a run on an empty batch writes an empty output and ends normally
\* with completed count 0; it submits no probe and makes no network call.
C14_EmptyBatchWritesEmptyOutput ==
    (input_file.value = <<>>) =>
        /\ future_to_q = <<>>
        /\ i = 0
        /\ pc \in {"load", "submit", "done"}
        /\ pc # "done" => ENABLED Next
        /\ pc = "done" => output_file = [written |-> TRUE, data |-> <<>>]

\* The run on the empty batch has ended.
C14_Witness ==
    /\ pc = "done"
    /\ input_file = FileOf(<<>>)
    /\ output_file.written

----------------------------------------------------------------------------
(* Claims about the manual lookup *)

Saved == manual_file.data

SavedEntries(file) == {file.data[j] : j \in 1..Len(file.data)}

\* C15: after any sequence of q-manual invocations the saved list holds no
\* two entries with the same q and is sorted ascending by q, and no
\* invocation removes or alters an entry that an earlier one saved.
C15_SavedListUniqueSortedRetained ==
    /\ [](/\ \A j, k \in 1..Len(Saved) : j # k => Saved[j].q # Saved[k].q
          /\ SortedAscending(Saved))
    /\ [][SavedEntries(manual_file) \subseteq SavedEntries(manual_file')]_vars

\* Three tokens were saved, found by JSON and by HTML, and a further
\* invocation repeated one of them.
C15_Witness ==
    /\ manual_pc = "duplicate"
    /\ Len(Saved) >= 3
    /\ \E j, k \in 1..Len(Saved) : Saved[j].type = "json" /\ Saved[k].type = "html"

----------------------------------------------------------------------------
(* Claims about the batch run, continued *)

\* The futures of future_to_q that hold a result.
Held == {k \in Futures : fstate[k] = "finished"}

\* C16 as stated: the number of probe results the engine holds is at most
\* the number of valid results found so far (aggregated or not) plus the
\* probes in flight.
C16_HeldBoundedByValid ==
    Cardinality(Held) <= Cardinality({k \in Held : IsValid(k)}) + Cardinality(InFlight)

\* C16 amended: only valid results are appended to the aggregation list:
\* success_items holds exactly the valid results consumed so far, an Invalid
\* result is counted and not appended; the futures of future_to_q keep the
\* result of every finished probe, so the results held are bounded by the
\* batch size.
C16_OnlyValidAggregated ==
    /\ Len(success_items) = Cardinality({k \in yielded : IsValid(k)})
    /\ \A j \in 1..Len(success_items) : success_items[j] # NoneValue
    /\ i = Cardinality(yielded)
    /\ Cardinality(Held) <= Len(params)
    /\ yielded \subseteq Held

\* Invalid results were counted and not stored, while their futures are held.
C16_Witness ==
    /\ pc = "collect"
    /\ i >= 2
    /\ Len(success_items) = 1
    /\ Cardinality(Held) > Cardinality({k \in Held : IsValid(k)}) + Cardinality(InFlight)

\* C17: the completed count and the valid count never decrease and
\* valid <= completed <= total; a completion prints a progress line exactly
\* when the completed count is a multiple of the cadence or equals the
\* total, and the line reports the counts as of that completion.
C17_ProgressAtCadenceAndEnd ==
    /\ [](Len(success_items) <= i /\ i <= Len(params))
    /\ [][/\ i' >= i
          /\ Len(success_items') >= Len(success_items)
          /\ i' = i => progress' = progress
          /\ i' # i =>
               IF i' % PROGRESS_EVERY = 0 \/ i' = Len(params)
               THEN progress' = [completed |-> i', total |-> Len(params),
                                 success |-> Len(success_items')]
               ELSE progress' = progress]_vars

\* A finished run, longer than the cadence and not a multiple of it, whose
\* last line is the one of the final completion.
C17_Witness ==
    /\ pc = "done"
    /\ Len(params) > PROGRESS_EVERY
    /\ Len(params) % PROGRESS_EVERY # 0
    /\ progress = [completed |-> Len(params), total |-> Len(params),
                   success |-> Len(Data)]

----------------------------------------------------------------------------
(* Claims about field extraction *)

\* The body in which the patterns that did not match do match.
AllMatching(body) ==
    [body EXCEPT !.name = IF @ = "NoMatch" THEN " Dune " ELSE @,
                 !.rating = IF @ = "NoMatch" THEN "8.0/10" ELSE @,
                 !.year = IF @ = "NoMatch" THEN "2021" ELSE @,
                 !.summary = IF @ = "NoMatch" THEN "plot" ELSE @]

FieldDefault(f) == IF f = "summary" THEN "No summary available" ELSE "Unknown"

FieldCapture(body, f) ==
    CASE f = "name" -> body.name
      [] f = "rating" -> body.rating
      [] f = "year" -> body.year
      [] f = "summary" -> body.summary

\* C18: for a status-200 body that is not JSON and contains both markers the
\* result is valid of type "html" whatever fields match; its details have
\* the four fields, a field whose pattern does not match has its default
\* and every other field has the value it has when all patterns match.
C18_FieldsExtractedIndependently ==
    \A k \in Finished :
        (/\ Got200(k)
         /\ response[k].body.json.kind = "invalid"
         /\ BothMarkers(response[k].body))
        => LET body == response[k].body
               r == fresult[k]
           IN  /\ r.exc = "none"
               /\ r.value.q = params[k].q
               /\ r.value.status = "active"
               /\ r.value.type = "html"
               /\ {p[1] : p \in r.value.details} = {"name", "rating", "year", "summary"}
               /\ Cardinality(r.value.details) = 4
               /\ \A f \in {"name", "rating", "year", "summary"} :
                     DictGet(r.value.details, f) =
                        IF FieldCapture(body, f) = "NoMatch"
                        THEN FieldDefault(f)
                        ELSE DictGet(extract_movie_details(AllMatching(body)), f)

\* A detail page without a year and a summary, with name and rating, was
\* classified and written.
C18_Witness ==
    /\ pc = "done"
    /\ \E k \in Finished :
          /\ Got200(k)
          /\ response[k].body.json.kind = "invalid"
          /\ BothMarkers(response[k].body)
          /\ response[k].body.year = "NoMatch"
          /\ response[k].body.summary = "NoMatch"
          /\ Len(Data) = 1
          /\ Data[1].details = { <<"name", "Dune">>, <<"rating", "8.0/10">>,
                                 <<"year", "Unknown">>,
                                 <<"summary", "No summary available">> }

----------------------------------------------------------------------------
(* Claims about the manual lookup, continued *)

\* The response classifies the token as valid: status 200 and either a JSON
\* object whose ok is true, or text that is not JSON with both markers.
ManualValid(resp) ==
    /\ resp.exc = "none"
    /\ resp.status_code = 200
    /\ \/ HasOkTrue(resp.body.json)
       \/ resp.body.json.kind = "invalid" /\ BothMarkers(resp.body)

\* C19: manual/generated.json changes only in an invocation whose token is
\* classified valid and is not in the file; an invocation whose token is
\* classified invalid or is already present leaves the file as it is.
C19_InvalidOrPresentLeavesFile ==
    [][manual_file' # manual_file =>
          /\ manual_pc = "update"
          /\ ManualValid(manual_response)
          /\ ~\E j \in 1..Len(Saved) : Saved[j].q = q_input]_vars

\* An invocation ended on a token classified invalid while the file held
\* entries.
C19_Witness ==
    /\ manual_pc = "invalid"
    /\ Len(Saved) >= 1

----------------------------------------------------------------------------
(* Claims about the generator *)

Written == DOMAIN generated_files

\* The items of files 1..n, in the order of the files.
RECURSIVE FilesUpTo(_)
FilesUpTo(n) ==
    IF n = 0 THEN <<>> ELSE FilesUpTo(n - 1) \o generated_files[n]

RECURSIVE BatchBytes(_)
BatchBytes(batch) ==
    IF batch = <<>> THEN 0
    ELSE 29 + utf8_len(Head(batch).q) + BatchBytes(Tail(batch))

\* The item count or the byte size of the items has reached its threshold.
Reached(batch) ==
    \/ Len(batch) >= TARGET_SIZE_BYTES \div BYTES_PER_ITEM
    \/ BatchBytes(batch) >= TARGET_SIZE_BYTES

Generated == product(CHARS, Q_LENGTH)

\* C20: when the generator has ended, the files written are numbered 1..n,
\* none is empty, their items in the order of the files are the generated
\* tokens in generation order, each once, and every file but the last ends
\* at the first item at which a threshold is reached.
C20_FilesPartitionTheCandidates ==
    generator_pc = "done" =>
        LET n == Cardinality(Written)
        IN  /\ Written = 1..n
            /\ \A k \in Written : generated_files[k] # <<>>
            /\ FilesUpTo(n) = [j \in 1..Len(Generated) |-> Item(Generated[j])]
            /\ \A k \in Written : k < n =>
                  /\ Reached(generated_files[k])
                  /\ \A m \in 1..(Len(generated_files[k]) - 1) :
                        ~Reached(SubSeq(generated_files[k], 1, m))

\* A run ended with a first file of at least two items that the byte size
\* ended before the item count, and a last file of what was left.
C20_Witness ==
    /\ generator_pc = "done"
    /\ Cardinality(Written) >= 2
    /\ Len(generated_files[1]) >= 2
    /\ Len(generated_files[1]) < TARGET_SIZE_BYTES \div BYTES_PER_ITEM
    /\ ~Reached(generated_files[Cardinality(Written)])

====
